---- MODULE Spec2Model ----
(***************************************************************************)
(* A model of timelapse_from_folders.py: the per-folder video pipeline     *)
(* (main, make_video_for_folder, pick_writer_size, ensure_size), the frame *)
(* selector (list_images, filter_by_window, in_time_window), the weekday   *)
(* parser (parse_weekdays) and the extension repair                        *)
(* (maybe_fix_missing_extension).                                          *)
(***************************************************************************)
EXTENDS Integers, Sequences, FiniteSets, TLC

VARIABLES
  \* ---- main / make_video_for_folder ----
  pc,          \* position of main: "start", "scan", "loop", "exited"
  exitCode,    \* process exit code once pc = "exited" (-1 before)
  rootExists,  \* root.exists()
  width,       \* args.width
  overwrite,   \* args.overwrite
  folders,     \* scan_target_folders(root), in iterdir order
  todo,        \* the part of sorted(folders) not yet processed
  reports,     \* the per-job lines printed by main, in order
  summary,     \* whether the final summary line was printed
  ok_cnt,      \* main's ok_cnt
  jobState,    \* state of the job being run (section 4.5 names)
  images,      \* the job's selected files, in list_images/filter order
  W, H,        \* the canvas size computed by pick_writer_size
  writer,      \* "none", "unopened", "open", "released"
  idx,         \* 1-based position of the for loop over images
  written,     \* frames passed to writer.write, in order
  raisedBy,    \* what raised an uncaught exception: "none", "decode", "ensure_size"
  \* ---- in_time_window ----
  tw_pc,       \* "off", "input", "done"
  tw_t,        \* dt.time(), in half-hours since midnight
  tw_start,    \* start: <<>> for None, <<v>> for a time
  tw_end,      \* end, likewise
  tw_keep,     \* the value in_time_window returned
  \* ---- parse_weekdays ----
  wd_pc,       \* "off", "input", "done"
  wd_s,        \* the argument s, a sequence of symbols
  wd_out,      \* what parse_weekdays returned, or that it raised
  \* ---- the folder on disk ----
  dir,         \* the files of the folder
  dir0,        \* the files of the folder before the first call
  fsMode,      \* how rename, copy2 and unlink behave in this folder
  \* ---- list_images / filter_by_window ----
  sel_pc,      \* "off", "input", "listed", "filtered"
  files,       \* what list_images returned
  tstart,      \* filter_by_window's tstart: <<>> for None
  tend,        \* its tend
  wdays,       \* its wdays: {} for None
  kept,        \* what filter_by_window returned
  \* ---- maybe_fix_missing_extension ----
  rp_pc,       \* "off", "input", "once", "twice"
  rp_path,     \* the path of the first call
  rp_first,    \* what the first call returned
  rp_second,   \* what the second call, on rp_first, returned
  rp_renames   \* the renames and copies the second call attempted

pipeVars == <<pc, exitCode, rootExists, width, overwrite, folders, todo, reports,
              summary, ok_cnt, jobState, images, W, H, writer, idx, written, raisedBy>>

winVars == <<tw_pc, tw_t, tw_start, tw_end, tw_keep>>

wdVars == <<wd_pc, wd_s, wd_out>>

dirVars == <<dir, dir0, fsMode>>

selVars == <<sel_pc, files, tstart, tend, wdays, kept>>

rpVars == <<rp_pc, rp_path, rp_first, rp_second, rp_renames>>

vars == <<pipeVars, winVars, wdVars, dirVars, selVars, rpVars>>

notPipe == <<winVars, wdVars, dirVars, selVars, rpVars>>

notWin == <<pipeVars, wdVars, dirVars, selVars, rpVars>>

notWd == <<pipeVars, winVars, dirVars, selVars, rpVars>>

----------------------------------------------------------------------------
(* Bounds of the model *)

MaxFolders == 2
MaxImages == 3
MaxW == 3
MaxH == 2
MaxWidth == 2

----------------------------------------------------------------------------
(* Arithmetic helpers *)

Max(a, b) == IF a >= b THEN a ELSE b

\* Python's round() of the non-negative fraction n/d: to nearest, ties to even.
RoundHalfEven(n, d) ==
  LET q == n \div d
      r == n % d
  IN  IF 2 * r < d THEN q
      ELSE IF 2 * r > d THEN q + 1
      ELSE IF q % 2 = 0 THEN q ELSE q + 1

----------------------------------------------------------------------------
(* Imaging: pick_writer_size and ensure_size *)

\* pick_writer_size(first_img, target_width) -> (W, H)
pick_writer_size(w, h, target_width) ==
  LET W0 == IF target_width <= 0 THEN w ELSE target_width
      H0 == IF target_width <= 0 THEN h ELSE RoundHalfEven(h * target_width, w)
  IN  [W |-> IF W0 % 2 = 1 THEN W0 + 1 ELSE W0,
       H |-> IF H0 % 2 = 1 THEN H0 + 1 ELSE H0]

\* ensure_size(img, target_w, target_h): the geometry it computes.  scale is
\* min(target_w / w, target_h / h), kept as the fraction sn / sd.
\* cv2.copyMakeBorder raises when a padding is negative.
ensure_size(w, h, target_w, target_h) ==
  IF w = target_w /\ h = target_h
  THEN [raises |-> FALSE, new_w |-> w, new_h |-> h, top |-> 0, bottom |-> 0,
        left |-> 0, right |-> 0, out_w |-> w, out_h |-> h]
  ELSE
    LET useW  == target_w * h <= target_h * w
        sn    == IF useW THEN target_w ELSE target_h
        sd    == IF useW THEN w ELSE h
        new_w == Max(1, RoundHalfEven(w * sn, sd))
        new_h == Max(1, RoundHalfEven(h * sn, sd))
        top    == (target_h - new_h) \div 2
        bottom == target_h - new_h - top
        left   == (target_w - new_w) \div 2
        right  == target_w - new_w - left
    IN  [raises |-> (top < 0 \/ bottom < 0 \/ left < 0 \/ right < 0),
         new_w |-> new_w, new_h |-> new_h, top |-> top, bottom |-> bottom,
         left |-> left, right |-> right,
         out_w |-> new_w + left + right, out_h |-> new_h + top + bottom]

----------------------------------------------------------------------------
(* The files of a folder as load_image_bgr_with_orientation sees them *)

Corrupt == [ok |-> FALSE, w |-> 0, h |-> 0]

ImageFiles == {Corrupt} \cup [ok : {TRUE}, w : 1..MaxW, h : 1..MaxH]

\* The result of list_images followed by filter_by_window for one folder.
ImageSeqs == UNION {[1..n -> ImageFiles] : n \in 0..MaxImages}

----------------------------------------------------------------------------
(* Folder names.  A folder is named by a number whose order stands for the  *)
(* lexicographic order of the path; Root is the root folder itself.         *)

Root == 0

FolderNames == 1..MaxFolders

\* the orders in which iterdir can yield the set S
RECURSIVE Orderings(_)
Orderings(S) ==
  IF S = {} THEN {<<>>}
  ELSE UNION {{<<x>> \o t : t \in Orderings(S \ {x})} : x \in S}

\* scan_target_folders(root): the sub-directories if there are any, else the
\* root itself if it holds images, else nothing.
ScanResults ==
  UNION {Orderings(S) : S \in (SUBSET FolderNames) \ {{}}} \cup {<<Root>>, <<>>}

RECURSIVE Insert(_, _)
Insert(x, s) ==
  IF s = <<>> THEN <<x>>
  ELSE IF x <= Head(s) THEN <<x>> \o s
  ELSE <<Head(s)>> \o Insert(x, Tail(s))

\* sorted(folders)
RECURSIVE SortFolders(_)
SortFolders(s) == IF s = <<>> THEN <<>> ELSE Insert(Head(s), SortFolders(Tail(s)))

----------------------------------------------------------------------------
(* main and make_video_for_folder *)

JobEnded == jobState \in {"NONE", "SKIPPED_EMPTY", "SKIPPED_EXISTS", "ERR_NO_ENCODER", "DONE"}

PipeOff ==
  /\ pc = "off" /\ exitCode = -1 /\ rootExists = FALSE /\ width = 0
  /\ overwrite = FALSE /\ folders = <<>> /\ todo = <<>> /\ reports = <<>>
  /\ summary = FALSE /\ ok_cnt = 0 /\ jobState = "NONE" /\ images = <<>>
  /\ W = 0 /\ H = 0 /\ writer = "none" /\ idx = 0 /\ written = <<>>
  /\ raisedBy = "none"

PipeInit ==
  /\ pc = "start"
  /\ exitCode = -1
  /\ rootExists \in BOOLEAN
  /\ width \in 0..MaxWidth
  /\ overwrite \in BOOLEAN
  /\ folders = <<>>
  /\ todo = <<>>
  /\ reports = <<>>
  /\ summary = FALSE
  /\ ok_cnt = 0
  /\ jobState = "NONE"
  /\ images = <<>>
  /\ W = 0
  /\ H = 0
  /\ writer = "none"
  /\ idx = 0
  /\ written = <<>>
  /\ raisedBy = "none"

jobVars == <<jobState, images, W, H, writer, idx, written, raisedBy>>

\* main, lines 302-306: a missing root ends the process with code 2.
CheckRoot ==
  /\ pc = "start"
  /\ IF rootExists
     THEN /\ pc' = "scan"
          /\ exitCode' = exitCode
     ELSE /\ pc' = "exited"
          /\ exitCode' = 2
  /\ UNCHANGED <<rootExists, width, overwrite, folders, todo, reports, summary, ok_cnt>>
  /\ UNCHANGED jobVars
  /\ UNCHANGED notPipe

\* main, lines 310-317: no folder ends the process with code 3.
Scan(found) ==
  /\ pc = "scan"
  /\ folders' = found
  /\ IF found = <<>>
     THEN /\ pc' = "exited"
          /\ exitCode' = 3
          /\ todo' = <<>>
     ELSE /\ pc' = "loop"
          /\ exitCode' = exitCode
          /\ todo' = SortFolders(found)
  /\ UNCHANGED <<rootExists, width, overwrite, reports, summary, ok_cnt>>
  /\ UNCHANGED jobVars
  /\ UNCHANGED notPipe

\* print(msg); if ok: ok_cnt += 1 (main, lines 332-334) for the job at Head(todo)
Report(tag, frames) ==
  /\ reports' = Append(reports, [folder |-> Head(todo), tag |-> tag, frames |-> frames])
  /\ ok_cnt' = IF tag = "OK" THEN ok_cnt + 1 ELSE ok_cnt
  /\ todo' = Tail(todo)

\* an exception nothing catches: the interpreter ends the process with code 1
Uncaught(by) ==
  /\ raisedBy' = by
  /\ jobState' = "RAISED"
  /\ pc' = "exited"
  /\ exitCode' = 1

\* make_video_for_folder, lines 241-244, for the next folder of the loop.
\* imgs is what list_images and filter_by_window select.
JobSelect(imgs) ==
  /\ pc = "loop"
  /\ todo # <<>>
  /\ JobEnded
  /\ images' = imgs
  /\ written' = <<>>
  /\ idx' = 0
  /\ W' = 0
  /\ H' = 0
  /\ writer' = "none"
  /\ IF imgs = <<>>
     THEN /\ jobState' = "SKIPPED_EMPTY"
          /\ Report("SKIP", 0)
     ELSE /\ jobState' = "SELECTED"
          /\ UNCHANGED <<reports, ok_cnt, todo>>
  /\ UNCHANGED <<pc, exitCode, raisedBy, rootExists, width, overwrite, folders, summary>>
  /\ UNCHANGED notPipe

\* make_video_for_folder, lines 246-256.  outExists is out_path.exists(),
\* opened is writer.isOpened().
JobOpen(outExists, opened) ==
  /\ pc = "loop"
  /\ jobState = "SELECTED"
  /\ IF outExists /\ ~overwrite
     THEN /\ jobState' = "SKIPPED_EXISTS"
          /\ Report("SKIP", 0)
          /\ UNCHANGED <<pc, exitCode, raisedBy, W, H, writer, idx>>
     ELSE IF ~images[1].ok
     THEN \* line 251 decodes images[0] outside any try
          /\ Uncaught("decode")
          /\ UNCHANGED <<reports, ok_cnt, todo, W, H, writer, idx>>
     ELSE LET size == pick_writer_size(images[1].w, images[1].h, width)
          IN  /\ W' = size.W
              /\ H' = size.H
              /\ IF ~opened
                 THEN /\ writer' = "unopened"
                      /\ jobState' = "ERR_NO_ENCODER"
                      /\ Report("ERR", 0)
                      /\ UNCHANGED <<pc, exitCode, raisedBy, idx>>
                 ELSE /\ writer' = "open"
                      /\ jobState' = "RUNNING"
                      /\ idx' = 1
                      /\ UNCHANGED <<pc, exitCode, raisedBy, reports, ok_cnt, todo>>
  /\ UNCHANGED <<rootExists, width, overwrite, folders, summary, images, written>>
  /\ UNCHANGED notPipe

\* one iteration of the for loop, lines 258-270
FrameStep ==
  /\ pc = "loop"
  /\ jobState = "RUNNING"
  /\ idx <= Len(images)
  /\ LET p == images[idx]
         g == ensure_size(p.w, p.h, W, H)
     IN  IF ~p.ok
         THEN \* except Exception: print [WARN]; continue
              /\ idx' = idx + 1
              /\ UNCHANGED <<written, pc, exitCode, raisedBy, jobState>>
         ELSE IF g.raises
         THEN /\ Uncaught("ensure_size")
              /\ UNCHANGED <<written, idx>>
         ELSE /\ written' = Append(written, [i |-> idx, w |-> g.out_w, h |-> g.out_h])
              /\ idx' = idx + 1
              /\ UNCHANGED <<pc, exitCode, raisedBy, jobState>>
  /\ UNCHANGED <<rootExists, width, overwrite, folders, todo, reports, summary, ok_cnt,
                 images, W, H, writer>>
  /\ UNCHANGED notPipe

\* lines 272-273: writer.release() and the OK report with len(images)
JobFinish ==
  /\ pc = "loop"
  /\ jobState = "RUNNING"
  /\ idx > Len(images)
  /\ writer' = "released"
  /\ jobState' = "DONE"
  /\ Report("OK", Len(images))
  /\ UNCHANGED <<pc, exitCode, rootExists, width, overwrite, folders, summary,
                 images, W, H, idx, written, raisedBy>>
  /\ UNCHANGED notPipe

\* main, line 335: the summary line, then normal completion
Summary ==
  /\ pc = "loop"
  /\ todo = <<>>
  /\ JobEnded
  /\ summary' = TRUE
  /\ pc' = "exited"
  /\ exitCode' = 0
  /\ UNCHANGED <<rootExists, width, overwrite, folders, todo, reports, ok_cnt>>
  /\ UNCHANGED jobVars
  /\ UNCHANGED notPipe

----------------------------------------------------------------------------
(* in_time_window *)

HalfHoursPerDay == 48

Times == 0..(HalfHoursPerDay - 1)

\* Optional[time]: <<>> is None
OptTimes == {<<>>} \cup {<<v>> : v \in Times}

\* in_time_window without the branch for a window that crosses midnight
in_time_window_no_wrap(t, start, end) ==
  IF start = <<>> /\ end = <<>> THEN TRUE
  ELSE IF start = <<>> THEN t <= end[1]
  ELSE IF end = <<>> THEN t >= start[1]
  ELSE start[1] <= t /\ t <= end[1]

\* in_time_window(dt, start, end), with t = dt.time()
in_time_window(t, start, end) ==
  IF start = <<>> /\ end = <<>> THEN TRUE
  ELSE IF start = <<>> THEN t <= end[1]
  ELSE IF end = <<>> THEN t >= start[1]
  ELSE IF start[1] <= end[1] THEN start[1] <= t /\ t <= end[1]
  ELSE (t >= start[1]) \/ (t <= end[1])

WinOff == tw_pc = "off" /\ tw_t = 0 /\ tw_start = <<>> /\ tw_end = <<>> /\ tw_keep = FALSE

WinInit ==
  /\ tw_pc = "input"
  /\ tw_t \in Times
  /\ tw_start \in OptTimes
  /\ tw_end \in OptTimes
  /\ tw_keep = FALSE

CallInTimeWindow ==
  /\ tw_pc = "input"
  /\ tw_keep' = in_time_window(tw_t, tw_start, tw_end)
  /\ tw_pc' = "done"
  /\ UNCHANGED <<tw_t, tw_start, tw_end>>
  /\ UNCHANGED notWin

----------------------------------------------------------------------------
(* parse_weekdays.  The argument is a sequence of symbols: a symbol stands  *)
(* for a run of characters, "sup2" for the superscript digit two (U+00B2), *)
(* "zhou" for the prefix U+9031, "zh1"... for the Chinese day characters.   *)
(* No two symbols of Alphabet written one after the other spell a key of   *)
(* the tables en and zh.                                                   *)

MaxSpecLen == 4

DecimalDigits == {"0", "1", "5", "6", "7"}

\* characters for which str.isdigit() is true and int() raises ValueError
SuperscriptDigits == {"sup2"}

Alphabet == {"mon", "fri", "Mon", "x", "-", ",", " ", "zhou"}
              \cup DecimalDigits \cup SuperscriptDigits

DigitValue(c) ==
  CASE c = "0" -> 0 [] c = "1" -> 1 [] c = "5" -> 5 [] c = "6" -> 6 [] c = "7" -> 7

\* the table en of parse_weekdays
en == [k \in {"mon", "monday", "tue", "tues", "tuesday", "wed", "wednesday", "thu",
              "thur", "thurs", "thursday", "fri", "friday", "sat", "saturday",
              "sun", "sunday"} |->
        CASE k \in {"mon", "monday"} -> 0
          [] k \in {"tue", "tues", "tuesday"} -> 1
          [] k \in {"wed", "wednesday"} -> 2
          [] k \in {"thu", "thur", "thurs", "thursday"} -> 3
          [] k \in {"fri", "friday"} -> 4
          [] k \in {"sat", "saturday"} -> 5
          [] k \in {"sun", "sunday"} -> 6]

\* the table zh of parse_weekdays
zh == [k \in {"zh1", "zh2", "zh3", "zh4", "zh5", "zh6", "zhri", "zhtian"} |->
        CASE k = "zh1" -> 0 [] k = "zh2" -> 1 [] k = "zh3" -> 2 [] k = "zh4" -> 3
          [] k = "zh5" -> 4 [] k = "zh6" -> 5 [] k \in {"zhri", "zhtian"} -> 6]

\* str.lower() on one symbol
Lower(c) == IF c = "Mon" THEN "mon" ELSE c

\* lines 120-124: lower, strip, drop the prefixes, drop the spaces
Normalize(s) ==
  LET low == [i \in 1..Len(s) |-> Lower(s[i])]
      Keep(c) == c \notin {" ", "zhou"}
  IN  SelectSeq(low, Keep)

\* the first position of c in s, 0 when there is none
IndexOf(s, c) ==
  IF \E i \in 1..Len(s) : s[i] = c
  THEN CHOOSE i \in 1..Len(s) : s[i] = c /\ \A j \in 1..(i - 1) : s[j] # c
  ELSE 0

\* str.split(sep)
RECURSIVE SplitAll(_, _)
SplitAll(s, sep) ==
  LET i == IndexOf(s, sep)
  IN  IF i = 0 THEN <<s>>
      ELSE <<SubSeq(s, 1, i - 1)>> \o SplitAll(SubSeq(s, i + 1, Len(s)), sep)

\* str.isdigit()
IsDigit(tok) ==
  /\ tok # <<>>
  /\ \A i \in 1..Len(tok) : tok[i] \in DecimalDigits \cup SuperscriptDigits

\* int(tok) for a tok with no superscript digit
RECURSIVE IntOf(_)
IntOf(tok) ==
  IF tok = <<>> THEN 0
  ELSE 10 * IntOf(SubSeq(tok, 1, Len(tok) - 1)) + DigitValue(tok[Len(tok)])

\* the while loop of lines 148-155
RECURSIVE WhileRange(_, _, _)
WhileRange(i, bi, res) ==
  IF i = bi THEN Append(res, i)
  ELSE WhileRange((i + 1) % 7, bi, Append(res, i))

Returns(list) == [raised |-> FALSE, list |-> list]

Raises == [raised |-> TRUE, list |-> <<>>]

\* tok_to_idx_list(tok), lines 137-168
RECURSIVE tok_to_idx_list(_)
tok_to_idx_list(tok) ==
  IF tok = <<>> THEN Returns(<<>>)
  ELSE IF IndexOf(tok, "-") # 0
  THEN LET i == IndexOf(tok, "-")
           a_list == tok_to_idx_list(SubSeq(tok, 1, i - 1))
           b_list == tok_to_idx_list(SubSeq(tok, i + 1, Len(tok)))
       IN  IF a_list.raised \/ b_list.raised THEN Raises
           ELSE IF a_list.list = <<>> \/ b_list.list = <<>> THEN Returns(<<>>)
           ELSE Returns(WhileRange(a_list.list[1], b_list.list[1], <<>>))
  ELSE IF Len(tok) = 1 /\ tok[1] \in DOMAIN en THEN Returns(<<en[tok[1]]>>)
  ELSE IF Len(tok) = 1 /\ tok[1] \in DOMAIN zh THEN Returns(<<zh[tok[1]]>>)
  ELSE IF IsDigit(tok)
  THEN IF \E i \in 1..Len(tok) : tok[i] \in SuperscriptDigits
       THEN Raises
       ELSE LET n == IntOf(tok)
            IN  IF 1 <= n /\ n <= 7 THEN Returns(<<(n - 1) % 7>>)
                ELSE IF 0 <= n /\ n <= 6 THEN Returns(<<n>>)
                ELSE Returns(<<>>)
  ELSE Returns(<<>>)

\* parse_weekdays(s), lines 105-173
parse_weekdays(s) ==
  IF s = <<>> THEN [kind |-> "None", days |-> {}]
  ELSE
    LET parts == SplitAll(Normalize(s), ",")
        lists == [k \in 1..Len(parts) |-> tok_to_idx_list(parts[k])]
        out   == UNION {{lists[k].list[j] : j \in 1..Len(lists[k].list)} :
                        k \in 1..Len(parts)}
    IN  IF \E k \in 1..Len(parts) : lists[k].raised
        THEN [kind |-> "ValueError", days |-> {}]
        ELSE IF out = {} THEN [kind |-> "None", days |-> {}]
        ELSE [kind |-> "Set", days |-> out]

WeekdaySpecs == UNION {[1..n -> Alphabet] : n \in 0..MaxSpecLen}

WdOff == wd_pc = "off" /\ wd_s = <<>> /\ wd_out = [kind |-> "None", days |-> {}]

WdInit ==
  /\ wd_pc = "input"
  /\ wd_s \in WeekdaySpecs
  /\ wd_out = [kind |-> "None", days |-> {}]

CallParseWeekdays ==
  /\ wd_pc = "input"
  /\ wd_out' = parse_weekdays(wd_s)
  /\ wd_pc' = "done"
  /\ UNCHANGED wd_s
  /\ UNCHANGED notWd

----------------------------------------------------------------------------
(* A folder on disk.  A file name is <<stem, suffix>>; the order of the     *)
(* stems, then "" before ".jpg", is the lexicographic order of the names.  *)
(* A modification time is <<day, tick>>: the day of the week (0 is Monday) *)
(* and the time of day; their lexicographic order is that of st_mtime_ns.  *)

MaxFiles == 2

Stems == {1, 2, 3}

Suffixes == {"", ".jpg"}

Names == Stems \X Suffixes

Days == {0, 1}

Ticks == {0, 1}

Stamps == Days \X Ticks

\* the modification time of a file created during the run
Now == <<2, 0>>

\* jpeg: the file opens and its first 3 bytes are JPEG_MAGIC.  The header of
\* a file with a suffix is never read.  id tells whose content the file holds.
FileAttrs(S) ==
  {g \in [S -> [jpeg : BOOLEAN, mtime : Stamps]] : \A n \in S : n[2] # "" => g[n].jpeg}

DirsOn(S) ==
  {{[name |-> n, jpeg |-> g[n].jpeg, mtime |-> g[n].mtime, id |-> n] : n \in S} :
     g \in FileAttrs(S)}

Dirs == UNION {DirsOn(S) : S \in {T \in SUBSET Names : Cardinality(T) <= MaxFiles}}

FsModes == {"rename_ok", "copy_ok", "unlink_fails", "copy_partial", "copy_fails"}

Exists(d, n) == \E f \in d : f.name = n

Lookup(d, n) == CHOOSE f \in d : f.name = n

NamesOf(d) == {f.name : f \in d}

\* is_jpeg_file_by_header(path): a file that cannot be opened is not a JPEG
is_jpeg_file_by_header(d, path) == \E f \in d : f.name = path /\ f.jpeg

\* path.rename(new_path)
Rename(d, path, new_path) ==
  {f \in d : f.name \notin {path, new_path}}
    \cup {[Lookup(d, path) EXCEPT !.name = new_path]}

\* shutil.copy2(path, new_path), complete
Copy2(d, path, new_path) ==
  {f \in d : f.name # new_path} \cup {[Lookup(d, path) EXCEPT !.name = new_path]}

\* shutil.copy2(path, new_path) that raises after it created new_path
Copy2Partial(d, path, new_path) ==
  {f \in d : f.name # new_path}
    \cup {[name |-> new_path, jpeg |-> TRUE, mtime |-> Now, id |-> Lookup(d, path).id]}

\* maybe_fix_missing_extension without the test new_path.exists()
maybe_fix_no_exists_check(d, path, mode) ==
  IF path[2] # "" THEN [path |-> path, dir |-> d, renames |-> 0]
  ELSE IF is_jpeg_file_by_header(d, path)
  THEN LET new_path == <<path[1], ".jpg">>
       IN  CASE mode = "rename_ok" ->
                  [path |-> new_path, dir |-> Rename(d, path, new_path), renames |-> 1]
             [] mode = "copy_ok" ->
                  [path |-> new_path,
                   dir |-> {f \in Copy2(d, path, new_path) : f.name # path},
                   renames |-> 1]
             [] mode = "unlink_fails" ->
                  [path |-> path, dir |-> Copy2(d, path, new_path), renames |-> 1]
             [] mode = "copy_partial" ->
                  [path |-> path, dir |-> Copy2Partial(d, path, new_path), renames |-> 1]
             [] mode = "copy_fails" ->
                  [path |-> path, dir |-> d, renames |-> 1]
  ELSE [path |-> path, dir |-> d, renames |-> 0]

\* maybe_fix_missing_extension(path), lines 42-60: the path it returns, the
\* folder it leaves, and the renames or copies it attempted
maybe_fix_missing_extension(d, path, mode) ==
  IF path[2] # "" THEN [path |-> path, dir |-> d, renames |-> 0]
  ELSE IF is_jpeg_file_by_header(d, path)
  THEN LET new_path == <<path[1], ".jpg">>
       IN  IF Exists(d, new_path) THEN [path |-> path, dir |-> d, renames |-> 0]
           ELSE CASE mode = "rename_ok" ->
                       [path |-> new_path, dir |-> Rename(d, path, new_path), renames |-> 1]
                  [] mode = "copy_ok" ->
                       [path |-> new_path,
                        dir |-> {f \in Copy2(d, path, new_path) : f.name # path},
                        renames |-> 1]
                  [] mode = "unlink_fails" ->
                       [path |-> path, dir |-> Copy2(d, path, new_path), renames |-> 1]
                  [] mode = "copy_partial" ->
                       [path |-> path, dir |-> Copy2Partial(d, path, new_path), renames |-> 1]
                  [] mode = "copy_fails" ->
                       [path |-> path, dir |-> d, renames |-> 1]
  ELSE [path |-> path, dir |-> d, renames |-> 0]

----------------------------------------------------------------------------
(* list_images and filter_by_window *)

\* args.ext, by default
AllowedExts == {"jpg", "jpeg", "png"}

\* pp.suffix.lower().lstrip(".")
Ext(n) == IF n[2] = ".jpg" THEN "jpg" ELSE ""

StampLess(a, b) == a[1] < b[1] \/ (a[1] = b[1] /\ a[2] < b[2])

SuffixRank(x) == IF x = "" THEN 0 ELSE 1

NameLess(a, b) == a[1] < b[1] \/ (a[1] = b[1] /\ SuffixRank(a[2]) < SuffixRank(b[2]))

\* the order of a sort key without the name: (x.stat().st_mtime_ns,)
KeyLess_mtime_only(d, x, y) == StampLess(Lookup(d, x).mtime, Lookup(d, y).mtime)

\* the order of the sort key (x.stat().st_mtime_ns, x.name)
KeyLess(d, x, y) ==
  LET mx == Lookup(d, x).mtime
      my == Lookup(d, y).mtime
  IN  StampLess(mx, my) \/ (mx = my /\ NameLess(x, y))

RECURSIVE InsertByKey(_, _, _)
InsertByKey(d, x, s) ==
  IF s = <<>> THEN <<x>>
  ELSE IF ~KeyLess(d, Head(s), x) THEN <<x>> \o s
  ELSE <<Head(s)>> \o InsertByKey(d, x, Tail(s))

\* files.sort(key=...), line 72
RECURSIVE SortByKey(_, _)
SortByKey(d, s) ==
  IF s = <<>> THEN <<>>
  ELSE InsertByKey(d, s[Len(s)], SortByKey(d, SubSeq(s, 1, Len(s) - 1)))

\* the loop of list_images, lines 64-70, over the entries iterdir yielded
RECURSIVE Collect(_, _, _, _)
Collect(order, d, mode, acc) ==
  IF order = <<>> THEN [files |-> acc, dir |-> d]
  ELSE LET p   == Head(order)
           fix == IF p[2] = "" THEN maybe_fix_missing_extension(d, p, mode)
                  ELSE [path |-> p, dir |-> d, renames |-> 0]
       IN  Collect(Tail(order), fix.dir, mode,
                   IF Ext(fix.path) \in AllowedExts THEN Append(acc, fix.path) ELSE acc)

\* list_images(folder, allowed_exts), lines 62-73
list_images(d, order, mode) ==
  LET c == Collect(order, d, mode, <<>>)
  IN  [files |-> SortByKey(c.dir, c.files), dir |-> c.dir]

\* in_weekdays(dt, wanted), lines 175-178
in_weekdays(wd, wanted) == IF wanted = {} THEN TRUE ELSE wd \in wanted

\* filter_by_window(files, tstart, tend, wdays), lines 180-188
filter_by_window(d, fs, ts, te, wd) ==
  IF ts = <<>> /\ te = <<>> /\ wd = {} THEN fs
  ELSE LET Keep(p) ==
             LET m == Lookup(d, p).mtime
             IN  in_time_window(m[2], ts, te) /\ in_weekdays(m[1], wd)
       IN  SelectSeq(fs, Keep)

OptTicks == {<<>>} \cup {<<v>> : v \in Ticks}

DirOff == dir = {} /\ dir0 = {} /\ fsMode = "rename_ok"

DirInit == dir \in Dirs /\ dir0 = dir /\ fsMode \in FsModes

SelOff ==
  /\ sel_pc = "off" /\ files = <<>> /\ tstart = <<>> /\ tend = <<>> /\ wdays = {}
  /\ kept = <<>>

SelInit ==
  /\ sel_pc = "input" /\ files = <<>> /\ tstart = <<>> /\ tend = <<>> /\ wdays = {}
  /\ kept = <<>>

notSel == <<pipeVars, winVars, wdVars, rpVars>>

\* images = list_images(folder, allowed_exts), line 241
CallListImages(order) ==
  /\ sel_pc = "input"
  /\ LET r == list_images(dir, order, fsMode)
     IN  /\ files' = r.files
         /\ dir' = r.dir
  /\ sel_pc' = "listed"
  /\ UNCHANGED <<dir0, fsMode, tstart, tend, wdays, kept>>
  /\ UNCHANGED notSel

\* images = filter_by_window(images, tstart, tend, wdays), line 242
CallFilterByWindow(ts, te, wd) ==
  /\ sel_pc = "listed"
  /\ tstart' = ts
  /\ tend' = te
  /\ wdays' = wd
  /\ kept' = filter_by_window(dir, files, ts, te, wd)
  /\ sel_pc' = "filtered"
  /\ UNCHANGED <<dir, dir0, fsMode, files>>
  /\ UNCHANGED notSel

----------------------------------------------------------------------------
(* maybe_fix_missing_extension, called twice *)

RpOff ==
  /\ rp_pc = "off" /\ rp_path = <<0, "">> /\ rp_first = <<0, "">>
  /\ rp_second = <<0, "">> /\ rp_renames = 0

RpInit ==
  /\ rp_pc = "input" /\ rp_path = <<0, "">> /\ rp_first = <<0, "">>
  /\ rp_second = <<0, "">> /\ rp_renames = 0

notRp == <<pipeVars, winVars, wdVars, selVars>>

\* the first call, on a file of the folder
CallRepair(path) ==
  /\ rp_pc = "input"
  /\ Exists(dir, path)
  /\ LET r == maybe_fix_missing_extension(dir, path, fsMode)
     IN  /\ rp_first' = r.path
         /\ dir' = r.dir
  /\ rp_path' = path
  /\ rp_pc' = "once"
  /\ UNCHANGED <<dir0, fsMode, rp_second, rp_renames>>
  /\ UNCHANGED notRp

\* the second call, on the path the first call returned
CallRepairAgain ==
  /\ rp_pc = "once"
  /\ LET r == maybe_fix_missing_extension(dir, rp_first, fsMode)
     IN  /\ rp_second' = r.path
         /\ rp_renames' = r.renames
         /\ dir' = r.dir
  /\ rp_pc' = "twice"
  /\ UNCHANGED <<dir0, fsMode, rp_path, rp_first>>
  /\ UNCHANGED notRp

----------------------------------------------------------------------------
(* Specifications *)

Init == PipeInit /\ WinOff /\ WdOff /\ DirOff /\ SelOff /\ RpOff

Next ==
  \/ CheckRoot
  \/ \E found \in ScanResults : Scan(found)
  \/ \E imgs \in ImageSeqs : JobSelect(imgs)
  \/ \E outExists \in BOOLEAN, opened \in BOOLEAN : JobOpen(outExists, opened)
  \/ FrameStep
  \/ JobFinish
  \/ Summary

Spec == Init /\ [][Next]_vars

WinSpecInit == PipeOff /\ WinInit /\ WdOff /\ DirOff /\ SelOff /\ RpOff

WinNext == CallInTimeWindow

WinSpec == WinSpecInit /\ [][WinNext]_vars

WdSpecInit == PipeOff /\ WinOff /\ WdInit /\ DirOff /\ SelOff /\ RpOff

WdNext == CallParseWeekdays

WdSpec == WdSpecInit /\ [][WdNext]_vars

SelSpecInit == PipeOff /\ WinOff /\ WdOff /\ DirInit /\ SelInit /\ RpOff

SelNext ==
  \/ \E order \in Orderings(NamesOf(dir)) : CallListImages(order)
  \/ \E ts \in OptTicks, te \in OptTicks, wd \in SUBSET Days : CallFilterByWindow(ts, te, wd)

SelSpec == SelSpecInit /\ [][SelNext]_vars

RpSpecInit == PipeOff /\ WinOff /\ WdOff /\ DirInit /\ SelOff /\ RpInit

RpNext ==
  \/ \E path \in Names : CallRepair(path)
  \/ CallRepairAgain

RpSpec == RpSpecInit /\ [][RpNext]_vars

----------------------------------------------------------------------------
(* Properties of the pipeline, checked under Spec *)

\* the positions, in order, of the files of imgs that decode
RECURSIVE DecodableFrom(_, _)
DecodableFrom(imgs, i) ==
  IF i > Len(imgs) THEN <<>>
  ELSE (IF imgs[i].ok THEN <<i>> ELSE <<>>) \o DecodableFrom(imgs, i + 1)

WrittenPositions == [k \in 1..Len(written) |-> written[k].i]

\* C1: a decode failure of any selected file, the first in sorted order
\* included, never aborts the job: no exception of the decoder is left
\* uncaught, and a job that is DONE has appended exactly the files that
\* decode, in sorted order.
C1_DecodeFailureSkipsOnlyThatFrame ==
  /\ raisedBy # "decode"
  /\ jobState = "DONE" => WrittenPositions = DecodableFrom(images, 1)

\* C2: the process ends only with code 2 (root missing), code 3 (no folder)
\* or code 0; with code 0 the summary line was printed and every discovered
\* folder has exactly one report, OK, SKIP or ERR, in lexicographic order.
C2_EveryJobRunsAndExitIsZero ==
  pc = "exited" =>
    \/ exitCode = 2 /\ ~rootExists
    \/ exitCode = 3 /\ rootExists /\ folders = <<>>
    \/ /\ exitCode = 0
       /\ summary
       /\ folders # <<>>
       /\ [k \in 1..Len(reports) |-> reports[k].folder] = SortFolders(folders)
       /\ \A k \in 1..Len(reports) : reports[k].tag \in {"OK", "SKIP", "ERR"}

\* C3: the frame count of an OK report is the number of frames appended to
\* the sink.
C3_ReportedFramesAreWrittenFrames ==
  jobState = "DONE" => reports[Len(reports)].frames = Len(written)

\* C4: every frame passed to writer.write has the size (W, H), and
\* ensure_size fits every decoded image into the W x H canvas: the resized
\* image is no larger than the canvas, no padding is negative, the paddings
\* fill the remainder and the extra pixel goes to the bottom and the right.
C4_EveryFrameHasCanvasSize ==
  /\ raisedBy # "ensure_size"
  /\ \A k \in 1..Len(written) : written[k].w = W /\ written[k].h = H
  /\ (jobState = "RUNNING" /\ idx <= Len(images) /\ images[idx].ok) =>
       LET g == ensure_size(images[idx].w, images[idx].h, W, H)
       IN  /\ g.new_w <= W /\ g.new_h <= H
           /\ g.top >= 0 /\ g.bottom >= 0 /\ g.left >= 0 /\ g.right >= 0
           /\ g.out_w = W /\ g.out_h = H
           /\ g.bottom - g.top \in {0, 1} /\ g.right - g.left \in {0, 1}

\* C9: when a job has ended, by a return or by an exception, the
\* cv2.VideoWriter it created has been released.
C9_WriterReleasedWhenJobEnds ==
  (JobEnded \/ jobState = "RAISED") => writer \in {"none", "released"}

----------------------------------------------------------------------------
(* Properties of the frame selector, checked under SelSpec *)

MtimeOf(p) == Lookup(dir, p).mtime

PositionIn(s, x) == CHOOSE i \in 1..Len(s) : s[i] = x

SatisfiesWindow(p) ==
  /\ in_time_window(MtimeOf(p)[2], tstart, tend)
  /\ (wdays = {} \/ MtimeOf(p)[1] \in wdays)

\* C5: the list list_images returns is in strictly ascending
\* (st_mtime_ns, name) order; filter_by_window keeps exactly the files that
\* satisfy the time and the weekday predicate, in the order of the sorted
\* list, and keeps every file when no filter is set.
C5_SelectionSortedAndFiltered ==
  /\ sel_pc \in {"listed", "filtered"} =>
       \A i, j \in 1..Len(files) :
         i < j => \/ StampLess(MtimeOf(files[i]), MtimeOf(files[j]))
                  \/ /\ MtimeOf(files[i]) = MtimeOf(files[j])
                     /\ NameLess(files[i], files[j])
  /\ sel_pc = "filtered" =>
       /\ {kept[k] : k \in 1..Len(kept)}
            = {files[i] : i \in {n \in 1..Len(files) : SatisfiesWindow(files[n])}}
       /\ \A k, l \in 1..Len(kept) :
            k < l => PositionIn(files, kept[k]) < PositionIn(files, kept[l])
       /\ (tstart = <<>> /\ tend = <<>> /\ wdays = {}) => kept = files

\* two files whose name order is the reverse of their mtime order are
\* listed, and a filter drops the first of them
C5_Witness ==
  /\ sel_pc = "filtered"
  /\ Len(files) = 2
  /\ NameLess(files[2], files[1])
  /\ tstart # <<>>
  /\ kept = <<files[2]>>

----------------------------------------------------------------------------
(* Properties of in_time_window, checked under WinSpec *)

\* C6: in_time_window keeps t iff: no bound set, always; only start,
\* t >= start; only end, t <= end; start <= end, start <= t <= end; start >
\* end, t >= start or t <= end.  With start 22:00 and end 05:30 it keeps
\* 23:00 and 02:00 and drops 12:00.
C6_TimeWindow ==
  tw_pc = "done" =>
    /\ (tw_start = <<>> /\ tw_end = <<>>) => tw_keep
    /\ (tw_start # <<>> /\ tw_end = <<>>) => (tw_keep <=> tw_t >= tw_start[1])
    /\ (tw_start = <<>> /\ tw_end # <<>>) => (tw_keep <=> tw_t <= tw_end[1])
    /\ (tw_start # <<>> /\ tw_end # <<>> /\ tw_start[1] <= tw_end[1]) =>
         (tw_keep <=> (tw_start[1] <= tw_t /\ tw_t <= tw_end[1]))
    /\ (tw_start # <<>> /\ tw_end # <<>> /\ tw_start[1] > tw_end[1]) =>
         (tw_keep <=> (tw_t >= tw_start[1] \/ tw_t <= tw_end[1]))
    /\ (tw_start = <<44>> /\ tw_end = <<11>>) =>
         /\ tw_t \in {46, 4} => tw_keep
         /\ tw_t = 24 => ~tw_keep

\* 23:00 is kept by the window 22:00-05:30
C6_Witness ==
  tw_pc = "done" /\ tw_start = <<44>> /\ tw_end = <<11>> /\ tw_t = 46 /\ tw_keep

----------------------------------------------------------------------------
(* Properties of parse_weekdays, checked under WdSpec *)

\* C7: parse_weekdays never raises; "mon-fri" and "1-5" yield Monday to
\* Friday, "fri-mon" yields Friday, Saturday, Sunday, Monday; an empty spec
\* yields None, and so does every spec none of whose tokens parses.
C7_WeekdayRanges ==
  wd_pc = "done" =>
    /\ wd_out.kind # "ValueError"
    /\ wd_s = <<"mon", "-", "fri">> => wd_out = [kind |-> "Set", days |-> 0..4]
    /\ wd_s = <<"1", "-", "5">> => wd_out = [kind |-> "Set", days |-> 0..4]
    /\ wd_s = <<"fri", "-", "mon">> => wd_out = [kind |-> "Set", days |-> {4, 5, 6, 0}]
    /\ wd_s = <<>> => wd_out.kind = "None"
    /\ wd_out.kind = "Set" => (wd_out.days # {} /\ wd_out.days \subseteq 0..6)

\* C8: the token 0 is Monday, and "0-6" selects the seven weekdays.
C8_ZeroToSixConvention ==
  wd_pc = "done" =>
    /\ wd_s = <<"0">> => wd_out = [kind |-> "Set", days |-> {0}]
    /\ wd_s = <<"0", "-", "6">> => wd_out = [kind |-> "Set", days |-> 0..6]

----------------------------------------------------------------------------
(* Properties of maybe_fix_missing_extension, checked under RpSpec *)

\* C10: a file is renamed only if it has no suffix, has the JPEG header and
\* no file of the name <name>.jpg exists, and then to that name; every
\* other file of the folder keeps its name and content (none is
\* overwritten); a file with a suffix or another header leaves the folder
\* as it was; a second call on the returned path returns the same path, and
\* attempts no rename when that path has a suffix.
C10_RepairIdempotent ==
  /\ rp_pc \in {"once", "twice"} =>
       /\ rp_first # rp_path =>
            /\ rp_path[2] = ""
            /\ Lookup(dir0, rp_path).jpeg
            /\ rp_first = <<rp_path[1], ".jpg">>
            /\ ~Exists(dir0, rp_first)
            /\ Exists(dir, rp_first)
            /\ Lookup(dir, rp_first).id = rp_path
            /\ ~Exists(dir, rp_path)
       /\ \A f \in dir0 : f.name # rp_path => f \in dir
       /\ (rp_path[2] # "" \/ ~Lookup(dir0, rp_path).jpeg
             \/ Exists(dir0, <<rp_path[1], ".jpg">>)) =>
            (dir = dir0 /\ rp_first = rp_path)
  /\ rp_pc = "twice" =>
       /\ rp_second = rp_first
       /\ rp_first[2] # "" => rp_renames = 0

\* a file without suffix was renamed, and the second call ran on the new name
C10_Witness ==
  /\ rp_pc = "twice"
  /\ rp_first # rp_path
  /\ rp_first[2] = ".jpg"
  /\ Cardinality(dir0) = 2

====
